---- MODULE Spec2Model ----
(***************************************************************************)
(* Sun calculator: SunCalculator (sun_calculator.py), the formatting       *)
(* helpers of the command-line and graphical front ends, the cities table  *)
(* and the /calculate handler of the HTTP server (calculator_server.py).   *)
(*                                                                         *)
(* Units.  Coordinates are whole degrees at the interfaces; inside the     *)
(* solar computation angles are tenths of a degree and trigonometric       *)
(* values are scaled by 1000.  Clock values are minutes of the day; an     *)
(* instant is a pair  [day |-> ordinal day, min |-> 0..1439]  in UTC.      *)
(* A calendar date is a triple <<year, month, day>>.                       *)
(***************************************************************************)
EXTENDS Integers, Sequences, FiniteSets, TLC

None == "None"

-----------------------------------------------------------------------------
(* State.  One of the programs of the repository runs: a front end that    *)
(* owns one SunCalculator and calls it directly (sun_calculator_cli.py,    *)
(* sun_calculator_gui.py), or the HTTP server.                             *)

VARIABLES
    program,          \* "frontend" or "server"
    today,            \* datetime.now().date()
    instances,        \* the SunCalculator instances created: their location
    calculator_attr,  \* get_calculator._calculator: an instance, 0 if absent
    everSet,          \* a set_location call of the front end has succeeded
    tzcache,          \* the zones pytz has resolved so far
    last,             \* the last completed call: its inputs and its outcome
    reqs              \* the requests the server is handling concurrently

vars == <<program, today, instances, calculator_attr, everSet, tzcache, last, reqs>>

-----------------------------------------------------------------------------
(* Calendar (datetime.date)                                                *)

IsLeap(y) == (y % 4 = 0 /\ y % 100 # 0) \/ y % 400 = 0

DaysInMonth(y, m) ==
    CASE m \in {1, 3, 5, 7, 8, 10, 12} -> 31
      [] m \in {4, 6, 9, 11} -> 30
      [] OTHER -> IF IsLeap(y) THEN 29 ELSE 28

\* a triple names an existing date of the Gregorian calendar
DateExists(t) ==
    /\ t[1] \in 1..9999
    /\ t[2] \in 1..12
    /\ t[3] \in 1..DaysInMonth(t[1], t[2])

RECURSIVE DaysBeforeMonth(_, _)
DaysBeforeMonth(y, m) ==
    IF m = 1 THEN 0 ELSE DaysBeforeMonth(y, m - 1) + DaysInMonth(y, m - 1)

\* day of the year, 1..366
DayOfYear(t) == DaysBeforeMonth(t[1], t[2]) + t[3]

\* date.toordinal(): days since 0001-01-01, that day being 1
ToOrdinal(t) ==
    LET y == t[1] - 1
    IN  365 * y + (y \div 4) - (y \div 100) + (y \div 400) + DayOfYear(t)

\* date < date
DateLT(a, b) ==
    \/ a[1] < b[1]
    \/ a[1] = b[1] /\ a[2] < b[2]
    \/ a[1] = b[1] /\ a[2] = b[2] /\ a[3] < b[3]

-----------------------------------------------------------------------------
(* Fixed-point trigonometry used by the solar computation.                 *)
(* Angles are tenths of a degree, values are scaled by 1000.               *)

\* sine on [0, 180] degrees (Bhaskara's rational approximation)
SinHalf(r) ==
    LET p == r * (1800 - r)
    IN  (4 * p) \div ((4050000 - p) \div 1000)

Sin1000(x) ==
    LET r == x % 3600
    IN  IF r <= 1800 THEN SinHalf(r) ELSE 0 - SinHalf(r - 1800)

Cos1000(x) == Sin1000(x + 900)

-----------------------------------------------------------------------------
(* The solar computation the calculator delegates to: sun() of the astral  *)
(* library, called at sun_calculator.py line 49.  The formulas are those   *)
(* of the ephemeris engine (hour angle, sunrise and sunset minutes,        *)
(* wrapping into the adjacent UTC day); the library raises ValueError      *)
(* where the hour angle has no solution.                                   *)

\* zenith of sunrise and sunset, 90.8 degrees, and of civil dawn and dusk
SunriseZenith == 908
DawnZenith == 960
\* the computation keeps the latitude within 89.8 degrees of the equator
PolarClamp == 898
\* obliquity used for the declination, 23.4 degrees
Obliquity == 234

\* the sun's declination on the date, tenths of a degree
Declination(date) ==
    LET a == (3600 * (DayOfYear(date) + 10)) \div 365
    IN  0 - ((Obliquity * Cos1000(a)) \div 1000)

\* the equation of time on the date, minutes
EquationOfTime(date) ==
    LET b == (3600 * (DayOfYear(date) - 81)) \div 365
    IN  (987 * Sin1000(2 * b) - 753 * Cos1000(b) - 150 * Sin1000(b)) \div 100000

ClampLatitude(lat10) ==
    IF lat10 > PolarClamp THEN PolarClamp
    ELSE IF lat10 < 0 - PolarClamp THEN 0 - PolarClamp
    ELSE lat10

\* cos(H) = (cos(zenith) - sin(lat) sin(decl)) / (cos(lat) cos(decl)),
\* kept as numerator and (positive) denominator, both scaled by 10^6
HourAngleRatio(lat, date, zenith) ==
    LET phi == ClampLatitude(10 * lat)
        d   == Declination(date)
    IN  [num |-> 1000 * Cos1000(zenith) - Sin1000(phi) * Sin1000(d),
         den |-> Cos1000(phi) * Cos1000(d)]

RatioBelowMinusOne(r) == r.num < 0 - r.den
RatioAboveOne(r) == r.num > r.den

\* acos of the ratio, tenths of a degree in 0..1800: the least angle whose
\* cosine is not above the ratio (bisection; cosine falls on 0..180)
RECURSIVE AcosSearch(_, _, _)
AcosSearch(lo, hi, r) ==
    IF lo >= hi THEN lo
    ELSE LET mid == (lo + hi) \div 2
         IN  IF Cos1000(mid) * r.den <= 1000 * r.num
             THEN AcosSearch(lo, mid, r)
             ELSE AcosSearch(mid + 1, hi, r)

HourAngle(r) == AcosSearch(0, 1800, r)

\* minutes from 0h UTC of the date; may be negative or reach past 1440
SunriseMinutes(lon, h, eqt) == 720 - ((4 * (10 * lon + h)) \div 10) - eqt
SunsetMinutes(lon, h, eqt) == 720 - ((4 * (10 * lon - h)) \div 10) - eqt

\* the instant `minutes` after 0h UTC of the date: the minute count is
\* normalised into [0, 1440), the carry moves to the adjacent UTC day
MakeInstant(date, minutes) ==
    [day |-> ToOrdinal(date) + (minutes \div 1440), min |-> minutes % 1440]

InstantLT(a, b) == a.day < b.day \/ (a.day = b.day /\ a.min < b.min)

Raised(exc, msg) == [kind |-> exc, msg |-> msg]

\* astral.sun.sun(observer, date): dawn, sunrise, noon, sunset, dusk are
\* computed in this order and the first failure is raised
sun(lat, lon, date) ==
    LET rd  == HourAngleRatio(lat, date, DawnZenith)
        rs  == HourAngleRatio(lat, date, SunriseZenith)
        h   == HourAngle(rs)
        eqt == EquationOfTime(date)
    IN  IF RatioBelowMinusOne(rd) \/ RatioAboveOne(rd)
        THEN Raised("ValueError", "Sun never reaches 6 degrees below the horizon")
        ELSE IF RatioBelowMinusOne(rs)
        THEN Raised("ValueError", "Sun is always above the horizon")
        ELSE IF RatioAboveOne(rs)
        THEN Raised("ValueError", "Sun is always below the horizon")
        ELSE [kind |-> "ok",
              sunrise |-> MakeInstant(date, SunriseMinutes(lon, h, eqt)),
              sunset  |-> MakeInstant(date, SunsetMinutes(lon, h, eqt))]

-----------------------------------------------------------------------------
(* SunCalculator (sun_calculator.py).  self.location is <<>> for None and  *)
(* <<[latitude, longitude]>> for a LocationInfo.                           *)

NoLocation == <<>>
LocationInfo(lat, lon) == <<[latitude |-> lat, longitude |-> lon]>>

Returned == [kind |-> "ok"]

\* set_location with the bounds excluded
set_location_strict(location, lat, lon) ==
    IF ~(-90 < lat /\ lat < 90)
    THEN [location |-> location,
          out |-> Raised("ValueError", "Latitude must be between -90 and 90 degrees")]
    ELSE IF ~(-180 < lon /\ lon < 180)
    THEN [location |-> location,
          out |-> Raised("ValueError", "Longitude must be between -180 and 180 degrees")]
    ELSE [location |-> LocationInfo(lat, lon), out |-> Returned]

\* set_location that drops the stored location before it validates
set_location_clears(location, lat, lon) ==
    IF ~(-90 <= lat /\ lat <= 90)
    THEN [location |-> NoLocation,
          out |-> Raised("ValueError", "Latitude must be between -90 and 90 degrees")]
    ELSE IF ~(-180 <= lon /\ lon <= 180)
    THEN [location |-> NoLocation,
          out |-> Raised("ValueError", "Longitude must be between -180 and 180 degrees")]
    ELSE [location |-> LocationInfo(lat, lon), out |-> Returned]

\* set_location that stores the new location before it validates it
set_location_eager(location, lat, lon) ==
    IF ~(-90 <= lat /\ lat <= 90)
    THEN [location |-> LocationInfo(lat, lon),
          out |-> Raised("ValueError", "Latitude must be between -90 and 90 degrees")]
    ELSE IF ~(-180 <= lon /\ lon <= 180)
    THEN [location |-> LocationInfo(lat, lon),
          out |-> Raised("ValueError", "Longitude must be between -180 and 180 degrees")]
    ELSE [location |-> LocationInfo(lat, lon), out |-> Returned]

\* set_location(name, latitude, longitude): the location after the call
\* and the call's outcome
set_location(location, lat, lon) ==
    IF ~(-90 <= lat /\ lat <= 90)
    THEN [location |-> location,
          out |-> Raised("ValueError", "Latitude must be between -90 and 90 degrees")]
    ELSE IF ~(-180 <= lon /\ lon <= 180)
    THEN [location |-> location,
          out |-> Raised("ValueError", "Longitude must be between -180 and 180 degrees")]
    ELSE [location |-> LocationInfo(lat, lon), out |-> Returned]

\* get_sun_times returning the pair in the other order
get_sun_times_swapped(location, date) ==
    IF location = NoLocation
    THEN Raised("ValueError", "Location must be set before calculating sun times")
    ELSE LET s == sun(location[1].latitude, location[1].longitude, date)
         IN  IF s.kind = "ok"
             THEN [kind |-> "ok", sunrise |-> s.sunset, sunset |-> s.sunrise]
             ELSE s

\* get_sun_times(date_input): (sunrise, sunset) or the exception raised
get_sun_times(location, date) ==
    IF location = NoLocation
    THEN Raised("ValueError", "Location must be set before calculating sun times")
    ELSE LET s == sun(location[1].latitude, location[1].longitude, date)
         IN  IF s.kind = "ok"
             THEN [kind |-> "ok", sunrise |-> s.sunrise, sunset |-> s.sunset]
             ELSE s

-----------------------------------------------------------------------------
(* The time-zone database (pytz) as the front ends use it.                 *)

KnownZones == {"UTC", "GMT", "America/New_York", "Asia/Tokyo"}

\* pytz.timezone(name)
timezone(name) ==
    IF name \in KnownZones THEN [kind |-> "ok", zone |-> name]
    ELSE Raised("UnknownTimeZoneError", name)

\* the year an ordinal day falls in
YearOf(ord) ==
    LET g == (ord * 400) \div 146097 + 1
    IN  IF ToOrdinal(<<g, 1, 1>>) > ord THEN g - 1
        ELSE IF ToOrdinal(<<g + 1, 1, 1>>) <= ord THEN g + 1
        ELSE g

\* the ordinal of the n-th Sunday of a month (ordinal 7 is a Sunday)
NthSunday(y, m, n) ==
    LET first == ToOrdinal(<<y, m, 1>>)
        toSunday == (7 - (first % 7)) % 7
    IN  first + toSunday + 7 * (n - 1)

\* US daylight-saving time: from the second Sunday of March, 07:00 UTC,
\* to the first Sunday of November, 06:00 UTC
UsDst(t) ==
    LET y == YearOf(t.day)
        start == [day |-> NthSunday(y, 3, 2), min |-> 420]
        end   == [day |-> NthSunday(y, 11, 1), min |-> 360]
    IN  ~InstantLT(t, start) /\ InstantLT(t, end)

\* the zone's offset from UTC in force at the instant, minutes
UtcOffset(zone, t) ==
    CASE zone = "America/New_York" -> IF UsDst(t) THEN -240 ELSE -300
      [] zone = "Asia/Tokyo" -> 540
      [] OTHER -> 0

\* the zone's abbreviation in force at the instant (tzname())
TzName(zone, t) ==
    CASE zone = "America/New_York" -> IF UsDst(t) THEN "EDT" ELSE "EST"
      [] zone = "Asia/Tokyo" -> "JST"
      [] zone = "GMT" -> "GMT"
      [] OTHER -> "UTC"

\* the wall clock `offset` minutes from the instant's
Shift(t, offset) ==
    LET m == t.min + offset
    IN  [day |-> t.day + (m \div 1440), min |-> m % 1440]

\* dt.astimezone(tz): the wall-clock date and time in the zone, and the zone
astimezone(t, zone) ==
    LET w == Shift(t, UtcOffset(zone, t))
    IN  [day |-> w.day, min |-> w.min, tzname |-> TzName(zone, t)]

\* dt.strftime('%H:%M:%S <label>'): the clock fields of dt, and the label
strftime(dt, label) == [clock |-> dt.min, label |-> label]

\* format_time that formats in UTC when the zone is unknown
format_time_fallback(dt, zone) ==
    LET utc_time == strftime(dt, "UTC")
        tz == timezone(zone)
    IN  IF zone # "UTC" /\ tz.kind = "ok"
        THEN LET local_dt == astimezone(dt, tz.zone)
             IN  [kind |-> "ok", utc |-> utc_time,
                  local |-> strftime(local_dt, local_dt.tzname)]
        ELSE [kind |-> "ok", utc |-> utc_time, local |-> utc_time]

\* format_time that shifts by the offset the zone has today, not at dt
format_time_fixed(dt, zone) ==
    LET utc_time == strftime(dt, "UTC")
        now == [day |-> ToOrdinal(today), min |-> 0]
    IN  IF zone # "UTC"
        THEN LET tz == timezone(zone)
             IN  IF tz.kind # "ok" THEN tz
                 ELSE [kind |-> "ok", utc |-> utc_time,
                       local |-> strftime(Shift(dt, UtcOffset(tz.zone, now)),
                                          TzName(tz.zone, now))]
        ELSE [kind |-> "ok", utc |-> utc_time, local |-> utc_time]

\* format_time that formats "UTC" in a zone resolved earlier, when there is one
format_time_stale(dt, zone) ==
    LET utc_time == strftime(dt, "UTC")
    IN  IF zone # "UTC"
        THEN LET tz == timezone(zone)
             IN  IF tz.kind # "ok" THEN tz
                 ELSE LET local_dt == astimezone(dt, tz.zone)
                      IN  [kind |-> "ok", utc |-> utc_time,
                           local |-> strftime(local_dt, local_dt.tzname)]
        ELSE IF tzcache # {}
        THEN LET local_dt == astimezone(dt, CHOOSE z \in tzcache : TRUE)
             IN  [kind |-> "ok", utc |-> utc_time,
                  local |-> strftime(local_dt, local_dt.tzname)]
        ELSE [kind |-> "ok", utc |-> utc_time, local |-> utc_time]

\* format_time(dt, timezone) of sun_calculator_cli.py and of the GUI:
\* (utc_time, local_time), or the exception pytz.timezone raises
format_time(dt, zone) ==
    LET utc_time == strftime(dt, "UTC")
    IN  IF zone # "UTC"
        THEN LET tz == timezone(zone)
             IN  IF tz.kind # "ok" THEN tz
                 ELSE LET local_dt == astimezone(dt, tz.zone)
                      IN  [kind |-> "ok", utc |-> utc_time,
                           local |-> strftime(local_dt, local_dt.tzname)]
        ELSE [kind |-> "ok", utc |-> utc_time, local |-> utc_time]

\* CitiesDatabase.cities: the zone of a city (a part of the table)
CityZone(city) ==
    CASE city = "New York" -> "America/New_York"
      [] city = "Miami" -> "America/New_York"
      [] city = "Tokyo" -> "Asia/Tokyo"
      [] OTHER -> None

\* CitiesDatabase.get_local_time(city, utc_time)
get_local_time(city, utc_time) ==
    IF CityZone(city) = None THEN Raised("KeyError", city)
    ELSE LET local_tz == timezone(CityZone(city))
         IN  [kind |-> "ok", local |-> astimezone(utc_time, local_tz.zone)]

-----------------------------------------------------------------------------
(* The HTTP server (cmd/suncalc-tui/calculator_server.py).  A date string  *)
(* is [wellformed, ymd]: text of the shape YYYY-MM-DD with the numbers     *)
(* ymd (which need not name an existing date), or any other text.          *)

HTTPException(status, detail) ==
    [kind |-> "HTTPException", status_code |-> status, detail |-> detail]

\* datetime.strptime(date_str, "%Y-%m-%d").date()
strptime(s) ==
    IF s.wellformed /\ DateExists(s.ymd) THEN [kind |-> "ok", date |-> s.ymd]
    ELSE Raised("ValueError", "time data does not match format")

\* date.replace(year=y)
replace_year(d, y) ==
    IF DateExists(<<y, d[2], d[3]>>) THEN [kind |-> "ok", date |-> <<y, d[2], d[3]>>]
    ELSE Raised("ValueError", "day is out of range for month")

InvalidDateFormat == HTTPException(400, "Invalid date format: use YYYY-MM-DD")

\* validate_date(date_str), today being datetime.now().date()
validate_date(date_str, now) ==
    LET calc_date == strptime(date_str)
        min_date  == replace_year(now, now[1] - 1)
        max_date  == replace_year(now, now[1] + 1)
    IN  IF calc_date.kind # "ok" THEN InvalidDateFormat
        ELSE IF min_date.kind # "ok" THEN InvalidDateFormat
        ELSE IF max_date.kind # "ok" THEN InvalidDateFormat
        ELSE IF DateLT(calc_date.date, min_date.date)
        THEN HTTPException(400, "Date too far in past: maximum 1 year ago")
        ELSE IF DateLT(max_date.date, calc_date.date)
        THEN HTTPException(400, "Date too far in future: maximum 1 year ahead")
        ELSE calc_date

\* validate_coordinates(lat, lon)
validate_coordinates(lat, lon) ==
    IF ~(-90 <= lat /\ lat <= 90)
    THEN HTTPException(400, "Latitude must be between -90 and 90 degrees")
    ELSE IF ~(-180 <= lon /\ lon <= 180)
    THEN HTTPException(400, "Longitude must be between -180 and 180 degrees")
    ELSE Returned

\* get_timezone(tz_str): (timezone_str, tz); None and "" are falsy
get_timezone(tz_str) ==
    IF tz_str = None \/ tz_str = ""
    THEN [timezone_str |-> "GMT", tz |-> "GMT"]
    ELSE LET tz == timezone(tz_str)
         IN  IF tz.kind = "ok" THEN [timezone_str |-> tz.zone, tz |-> tz.zone]
             ELSE [timezone_str |-> "GMT", tz |-> "GMT"]

\* get_calculator(): the instances and the function's _calculator attribute
\* after the call (0: no attribute), and the instance returned
get_calculator(objs, attr) ==
    IF attr = 0
    THEN [instances |-> Append(objs, NoLocation),
          attr |-> Len(objs) + 1, calculator |-> Len(objs) + 1]
    ELSE [instances |-> objs, attr |-> attr, calculator |-> attr]

\* the SunTimes model built at lines 134-141
SunTimes(sunrise, sunset, timezone_str) ==
    [kind |-> "ok",
     sunrise_utc |-> strftime(sunrise, "UTC"),
     sunset_utc  |-> strftime(sunset, "UTC"),
     sunrise_gmt |-> strftime(astimezone(sunrise, "GMT"), "GMT"),
     sunset_gmt  |-> strftime(astimezone(sunset, "GMT"), "GMT"),
     timezone    |-> timezone_str]

\* the except clauses with the catch-all first: every exception, an
\* HTTPException too, becomes status 500
respond_catchall(outcome) ==
    IF outcome.kind = "ok" THEN [status |-> 200, body |-> outcome]
    ELSE [status |-> 500, detail |-> <<"Calculation error", outcome.kind>>]

\* the except clauses of calculate_sun_times: an HTTPException is raised
\* again as it is, any other exception becomes status 500
respond(outcome) ==
    IF outcome.kind = "ok" THEN [status |-> 200, body |-> outcome]
    ELSE IF outcome.kind = "HTTPException"
    THEN [status |-> outcome.status_code, detail |-> outcome.detail]
    ELSE [status |-> 500, detail |-> <<"Calculation error", outcome.msg>>]

\* get_sun_times was not reached
NotCalled == [kind |-> "none"]

\* calculate_sun_times obtaining the calculator and setting its location
\* before it validates the date
calculate_sun_times_early(inp, now, objs, attr) ==
    LET calc_date == validate_date(inp.date, now)
        coords    == validate_coordinates(inp.latitude, inp.longitude)
        zone      == get_timezone(inp.timezone)
        got       == get_calculator(objs, attr)
        located   == set_location(got.instances[got.calculator],
                                  inp.latitude, inp.longitude)
        times     == get_sun_times(located.location, calc_date.date)
        stored    == [instances |-> [got.instances EXCEPT
                                         ![got.calculator] = located.location],
                      attr |-> got.attr]
    IN  IF located.out.kind # "ok"
        THEN [resp |-> respond(IF calc_date.kind # "ok" THEN calc_date ELSE coords),
              times |-> NotCalled] @@ stored
        ELSE IF calc_date.kind # "ok"
        THEN [resp |-> respond(calc_date), times |-> NotCalled] @@ stored
        ELSE [resp |-> respond(IF times.kind # "ok" THEN times
                               ELSE SunTimes(times.sunrise, times.sunset,
                                             zone.timezone_str)),
              times |-> times] @@ stored

\* calculate_sun_times(location): the response, the calculator instances and
\* the _calculator attribute after the request, and what get_sun_times gave
calculate_sun_times(inp, now, objs, attr) ==
    LET calc_date == validate_date(inp.date, now)
        coords    == validate_coordinates(inp.latitude, inp.longitude)
        zone      == get_timezone(inp.timezone)
        got       == get_calculator(objs, attr)
        located   == set_location(got.instances[got.calculator],
                                  inp.latitude, inp.longitude)
        times     == get_sun_times(located.location, calc_date.date)
        untouched == [instances |-> objs, attr |-> attr, times |-> NotCalled]
    IN  IF calc_date.kind # "ok"
        THEN [resp |-> respond(calc_date)] @@ untouched
        ELSE IF coords.kind # "ok"
        THEN [resp |-> respond(coords)] @@ untouched
        ELSE IF located.out.kind # "ok"
        THEN [resp |-> respond(located.out), instances |-> got.instances,
              attr |-> got.attr, times |-> NotCalled]
        ELSE [resp |-> respond(IF times.kind # "ok" THEN times
                               ELSE SunTimes(times.sunrise, times.sunset,
                                             zone.timezone_str)),
              instances |-> [got.instances EXCEPT ![got.calculator] = located.location],
              attr |-> got.attr,
              times |-> times]

-----------------------------------------------------------------------------
(* Inputs and initial state                                                *)

\* inputs
Latitudes  == {-91, -90, 41, 62, 68, 78, 90, 91}
Longitudes == {-181, -180, -74, 140, 180, 181}
Dates      == {<<2024, 3, 20>>, <<2024, 6, 20>>, <<2024, 12, 8>>, <<2024, 12, 20>>}
Zones      == {"UTC", "America/New_York", "Asia/Tokyo", "Not/AZone"}
Cities     == {"New York", "Tokyo", "Atlantis"}
Todays     == {<<2024, 6, 20>>, <<2024, 2, 29>>, <<2025, 1, 10>>}

\* instants on either side of the two 2024 transitions of America/New_York
DstInstants ==
    {[day |-> ToOrdinal(<<2024, 3, 10>>), min |-> m] : m \in {419, 420}}
    \cup {[day |-> ToOrdinal(<<2024, 11, 3>>), min |-> m] : m \in {359, 360}}

\* the instants a front end formats: the sunrise and sunset it just got
Formattable ==
    DstInstants \cup
    (IF last.op = "get_sun_times" /\ last.out.kind = "ok"
     THEN {last.out.sunrise, last.out.sunset} ELSE {})

DateString(ymd) == [wellformed |-> TRUE, ymd |-> ymd]
DateStrings ==
    {DateString(d) : d \in {<<2024, 6, 20>>, <<2024, 12, 20>>, <<2023, 6, 19>>,
                            <<2023, 6, 20>>, <<2025, 6, 20>>, <<2025, 6, 21>>,
                            <<2024, 2, 30>>}}
    \cup {[wellformed |-> FALSE, ymd |-> <<0, 0, 0>>]}

\* the bodies of the requests to /calculate
Requests ==
    [latitude : {-91, 41, 78}, longitude : {-74, 181},
     date : DateStrings, timezone : {None, "America/New_York", "Not/AZone"}]

Init ==
    /\ program \in {"frontend", "server"}
    /\ today \in IF program = "server" THEN Todays ELSE {<<2024, 6, 20>>}
    /\ instances = IF program = "frontend" THEN <<NoLocation>> ELSE <<>>
    /\ calculator_attr = 0
    /\ everSet = FALSE
    /\ tzcache = {}
    /\ last = [op |-> "none"]
    /\ reqs = <<>>

\* calculator.set_location(name, lat, lon) in a front end
SetLocation ==
    /\ program = "frontend"
    /\ \E lat \in Latitudes, lon \in Longitudes :
         LET r == set_location(instances[1], lat, lon)
         IN  /\ instances' = [instances EXCEPT ![1] = r.location]
             /\ everSet' = (everSet \/ r.out.kind = "ok")
             /\ last' = [op |-> "set_location", latitude |-> lat, longitude |-> lon,
                         out |-> r.out]
    /\ UNCHANGED <<program, today, calculator_attr, tzcache, reqs>>

\* calculator.get_sun_times(calc_date) in a front end
GetSunTimes ==
    /\ program = "frontend"
    /\ \E d \in Dates :
         last' = [op |-> "get_sun_times", date |-> d,
                  out |-> get_sun_times(instances[1], d)]
    /\ UNCHANGED <<program, today, instances, calculator_attr, everSet, tzcache, reqs>>

\* format_time(dt, timezone) in a front end
FormatTime ==
    /\ program = "frontend"
    /\ \E dt \in Formattable, zone \in Zones :
         LET r == format_time(dt, zone)
         IN  /\ last' = [op |-> "format_time", dt |-> dt, zone |-> zone, out |-> r]
             /\ tzcache' = IF zone # "UTC" /\ r.kind = "ok"
                           THEN tzcache \cup {zone} ELSE tzcache
    /\ UNCHANGED <<program, today, instances, calculator_attr, everSet, reqs>>

\* cities_db.get_local_time(city, utc_time)
GetLocalTime ==
    /\ program = "frontend"
    /\ \E city \in Cities, dt \in DstInstants :
         LET r == get_local_time(city, dt)
         IN  /\ last' = [op |-> "get_local_time", city |-> city, dt |-> dt, out |-> r]
             /\ tzcache' = IF r.kind = "ok"
                           THEN tzcache \cup {CityZone(city)} ELSE tzcache
    /\ UNCHANGED <<program, today, instances, calculator_attr, everSet, reqs>>

\* one request to /calculate: the handler is a coroutine that never awaits,
\* so the event loop runs it from its first line to its response
Calculate ==
    /\ program = "server"
    /\ \E inp \in Requests :
         LET r == calculate_sun_times(inp, today, instances, calculator_attr)
         IN  /\ instances' = r.instances
             /\ calculator_attr' = r.attr
             /\ last' = [op |-> "calculate", inp |-> inp, resp |-> r.resp,
                         times |-> r.times]
             /\ tzcache' = tzcache
    /\ UNCHANGED <<program, today, everSet, reqs>>

Next == SetLocation \/ GetSunTimes \/ FormatTime \/ GetLocalTime \/ Calculate

Spec == Init /\ [][Next]_vars

-----------------------------------------------------------------------------
(* The server with several requests in progress at once, their steps       *)
(* (validation, obtaining the calculator, set_location, get_sun_times)     *)
(* interleaved, as when the handler is entered from several threads.       *)

NumRequests == 2

ConcRequests ==
    [latitude : {0, 41, 91}, longitude : {-74, 140},
     date : {DateString(<<2024, 6, 20>>)}, timezone : {None}]

NewRequest(inp) ==
    [pc |-> "validate", inp |-> inp, calc_date |-> <<0, 0, 0>>, timezone_str |-> None,
     calculator |-> 0, used |-> NoLocation, resp |-> [status |-> 0]]

InitConc ==
    /\ program = "server"
    /\ today = <<2024, 6, 20>>
    /\ instances = <<>>
    /\ calculator_attr = 0
    /\ everSet = FALSE
    /\ tzcache = {}
    /\ last = [op |-> "none"]
    /\ reqs \in [1..NumRequests -> {NewRequest(inp) : inp \in ConcRequests}]

Finish(i, resp) == [reqs EXCEPT ![i].pc = "done", ![i].resp = resp]

\* lines 124-126: validate_date, validate_coordinates, get_timezone
ReqValidate(i) ==
    /\ reqs[i].pc = "validate"
    /\ LET inp       == reqs[i].inp
           calc_date == validate_date(inp.date, today)
           coords    == validate_coordinates(inp.latitude, inp.longitude)
           zone      == get_timezone(inp.timezone)
       IN  reqs' = IF calc_date.kind # "ok" THEN Finish(i, respond(calc_date))
                   ELSE IF coords.kind # "ok" THEN Finish(i, respond(coords))
                   ELSE [reqs EXCEPT ![i].pc = "get_calculator",
                                     ![i].calc_date = calc_date.date,
                                     ![i].timezone_str = zone.timezone_str]
    /\ UNCHANGED <<program, today, instances, calculator_attr, everSet, tzcache, last>>

\* line 129: calculator = get_calculator()
ReqGetCalculator(i) ==
    /\ reqs[i].pc = "get_calculator"
    /\ LET got == get_calculator(instances, calculator_attr)
       IN  /\ instances' = got.instances
           /\ calculator_attr' = got.attr
           /\ reqs' = [reqs EXCEPT ![i].pc = "set_location",
                                   ![i].calculator = got.calculator]
    /\ UNCHANGED <<program, today, everSet, tzcache, last>>

\* line 130: calculator.set_location(name, latitude, longitude)
ReqSetLocation(i) ==
    /\ reqs[i].pc = "set_location"
    /\ LET c == reqs[i].calculator
           r == set_location(instances[c], reqs[i].inp.latitude, reqs[i].inp.longitude)
       IN  /\ instances' = [instances EXCEPT ![c] = r.location]
           /\ reqs' = IF r.out.kind # "ok" THEN Finish(i, respond(r.out))
                      ELSE [reqs EXCEPT ![i].pc = "get_sun_times"]
    /\ UNCHANGED <<program, today, calculator_attr, everSet, tzcache, last>>

\* lines 131-141: calculator.get_sun_times(calc_date) and the response
ReqGetSunTimes(i) ==
    /\ reqs[i].pc = "get_sun_times"
    /\ LET c     == reqs[i].calculator
           times == get_sun_times(instances[c], reqs[i].calc_date)
           resp  == respond(IF times.kind # "ok" THEN times
                            ELSE SunTimes(times.sunrise, times.sunset,
                                          reqs[i].timezone_str))
       IN  reqs' = [reqs EXCEPT ![i].pc = "done", ![i].resp = resp,
                                ![i].used = instances[c]]
    /\ UNCHANGED <<program, today, instances, calculator_attr, everSet, tzcache, last>>

NextConc ==
    \E i \in 1..NumRequests :
        ReqValidate(i) \/ ReqGetCalculator(i) \/ ReqSetLocation(i) \/ ReqGetSunTimes(i)

SpecConc == InitConc /\ [][NextConc]_vars

-----------------------------------------------------------------------------
(* Properties                                                              *)

\* a coordinate pair outside the valid ranges
OutOfRange(lat, lon) == lat < -90 \/ lat > 90 \/ lon < -180 \/ lon > 180

\* the response rejects the request for its date
IsDateRejection(resp) ==
    /\ resp.status = 400
    /\ resp.detail \in {"Invalid date format: use YYYY-MM-DD",
                        "Date too far in past: maximum 1 year ago",
                        "Date too far in future: maximum 1 year ahead"}

\* the date string names no date
InvalidDate(ds) == ~ds.wellformed \/ ~DateExists(ds.ymd)

\* the front end's calculator has a location and get_sun_times just ran
SunTimesAsked == last.op = "get_sun_times" /\ instances[1] # NoLocation

(* C1: set_location fails with the invalid-location error exactly when the *)
(* latitude is outside [-90, 90] or the longitude outside [-180, 180], the *)
(* bounds themselves being accepted; validate_coordinates answers a        *)
(* request whose date passed with status 400 exactly in the same cases.    *)
C1_CoordinateRange ==
    /\ last.op = "set_location" =>
         (last.out.kind = "ValueError" <=> OutOfRange(last.latitude, last.longitude))
    /\ (last.op = "calculate" /\ ~IsDateRejection(last.resp)) =>
         (last.resp.status = 400 <=> OutOfRange(last.inp.latitude, last.inp.longitude))

\* latitude on its bound is accepted and the longitude one past its bound
\* is what the call fails for
C1_Witness ==
    /\ last.op = "set_location"
    /\ last.latitude = 90 /\ last.longitude = 181
    /\ last.out = Raised("ValueError", "Longitude must be between -180 and 180 degrees")

(* C2: for an in-range location and a valid date the computation ends in a *)
(* result, never in an error: get_sun_times raises nothing once a location *)
(* is set, and the handler never answers 500.                              *)
C2_NoErrorForValidInput ==
    /\ SunTimesAsked => last.out.kind = "ok"
    /\ last.op = "calculate" => last.resp.status # 500

(* C3: the result is Normal, AlwaysDay or AlwaysNight as the hour-angle    *)
(* ratio decides: AlwaysDay below -1, AlwaysNight above 1, Normal with a   *)
(* sunrise and a sunset otherwise.                                         *)
C3_ResultByRatio ==
    SunTimesAsked =>
        LET loc == instances[1][1]
            r   == HourAngleRatio(loc.latitude, last.date, SunriseZenith)
        IN  last.out.kind = (IF RatioBelowMinusOne(r) THEN "AlwaysDay"
                             ELSE IF RatioAboveOne(r) THEN "AlwaysNight"
                             ELSE "ok")

UnknownZoneAsked == last.op = "calculate" /\ last.inp.timezone \notin KnownZones \cup {None}

(* C5 as stated: whenever a zone identifier that is not in the time-zone   *)
(* database is supplied, the outcome is an unknown-time-zone error: from   *)
(* format_time, and from the handler, which then never answers 200.        *)
C5_UnknownZoneIsError ==
    /\ (last.op = "format_time" /\ last.zone \notin KnownZones) =>
         last.out.kind = "UnknownTimeZoneError"
    /\ UnknownZoneAsked => last.resp.status # 200

(* C5, amended: format_time raises the unknown-time-zone error, naming the *)
(* zone, and substitutes nothing; the handler's get_timezone substitutes   *)
(* GMT for an unknown identifier and the response names GMT as its zone.   *)
C5_UnknownZone ==
    /\ (last.op = "format_time" /\ last.zone \notin KnownZones) =>
         last.out = Raised("UnknownTimeZoneError", last.zone)
    /\ (UnknownZoneAsked /\ last.resp.status = 200) =>
         last.resp.body.timezone = "GMT"

\* format_time was given a zone the database does not hold, and raised
C5_Witness ==
    /\ last.op = "format_time" /\ last.zone = "Not/AZone"
    /\ last.out.kind = "UnknownTimeZoneError"

(* C6: each request's sunrise and sunset come from that request's own      *)
(* location, whatever the interleaving, and at most one calculator         *)
(* instance is ever created.                                               *)
C6_OwnLocation ==
    /\ Len(instances) <= 1
    /\ \A i \in DOMAIN reqs :
         (reqs[i].pc = "done" /\ reqs[i].resp.status # 400) =>
             reqs[i].used = LocationInfo(reqs[i].inp.latitude, reqs[i].inp.longitude)

\* the wall clock of the instant in the zone, by the offset in force then
ZoneClock(t, zone) == Shift(t, UtcOffset(zone, t)).min

\* the zone a request asks for, GMT when it names none or an unknown one
AskedZone(inp) == IF inp.timezone \in KnownZones THEN inp.timezone ELSE "GMT"

\* what C7 says of format_time and of get_local_time: the UTC clock, and
\* the clock shifted by the offset of the requested zone at that instant;
\* on either side of the March 2024 transition of America/New_York these
\* are 01:59 EST and 03:00 EDT
FrontEndLocalTime ==
    /\ (last.op = "format_time" /\ last.out.kind = "ok") =>
         /\ last.out.utc = [clock |-> last.dt.min, label |-> "UTC"]
         /\ last.out.local.clock = ZoneClock(last.dt, last.zone)
         /\ last.out.local.label = TzName(last.zone, last.dt)
         /\ (last.zone = "America/New_York"
             /\ last.dt.day = ToOrdinal(<<2024, 3, 10>>)) =>
               last.out.local = (IF last.dt.min < 420
                                 THEN [clock |-> last.dt.min - 300, label |-> "EST"]
                                 ELSE [clock |-> last.dt.min - 240, label |-> "EDT"])
    /\ (last.op = "get_local_time" /\ last.out.kind = "ok") =>
         last.out.local.min = ZoneClock(last.dt, CityZone(last.city))

(* C7 as stated: every successful formatting gives the UTC clock and the   *)
(* clock of the requested zone at its offset in force at that instant:     *)
(* format_time, get_local_time, and the handler's response.                *)
C7_LocalByRequestedZone ==
    /\ FrontEndLocalTime
    /\ (last.op = "calculate" /\ last.resp.status = 200) =>
         /\ last.resp.body.sunrise_utc.clock = last.times.sunrise.min
         /\ last.resp.body.sunrise_gmt.clock =
                ZoneClock(last.times.sunrise, AskedZone(last.inp))
         /\ last.resp.body.sunset_gmt.clock =
                ZoneClock(last.times.sunset, AskedZone(last.inp))

(* C7, amended: format_time and get_local_time do so; the handler's second *)
(* pair of values is always the GMT clock, equal to the UTC clock,         *)
(* whatever zone the request names.                                        *)
C7_LocalByZoneInForce ==
    /\ FrontEndLocalTime
    /\ (last.op = "calculate" /\ last.resp.status = 200) =>
         /\ last.resp.body.sunrise_utc.clock = last.times.sunrise.min
         /\ last.resp.body.sunset_utc.clock = last.times.sunset.min
         /\ last.resp.body.sunrise_gmt = [clock |-> last.times.sunrise.min, label |-> "GMT"]
         /\ last.resp.body.sunset_gmt = [clock |-> last.times.sunset.min, label |-> "GMT"]

\* 07:00 UTC of 10 March 2024 formatted for New York: 03:00 EDT
C7_Witness ==
    /\ last.op = "format_time" /\ last.zone = "America/New_York"
    /\ last.dt = [day |-> ToOrdinal(<<2024, 3, 10>>), min |-> 420]
    /\ last.out.kind = "ok"
    /\ last.out.local = [clock |-> 180, label |-> "EDT"]

(* C8: formatting an instant in zone "UTC" gives the instant's UTC clock   *)
(* as both values, whatever zones were resolved before.                    *)
C8_UtcDeterministic ==
    (last.op = "format_time" /\ last.zone = "UTC") =>
        /\ last.out.kind = "ok"
        /\ last.out.utc = [clock |-> last.dt.min, label |-> "UTC"]
        /\ last.out.local = last.out.utc

\* "UTC" formatted after two other zones were resolved
C8_Witness ==
    /\ last.op = "format_time" /\ last.zone = "UTC" /\ last.out.kind = "ok"
    /\ tzcache = {"America/New_York", "Asia/Tokyo"}

\* the date is within a year of today, both ends included
WithinOneYear(d, now) ==
    /\ ~DateLT(d, <<now[1] - 1, now[2], now[3]>>)
    /\ ~DateLT(<<now[1] + 1, now[2], now[3]>>, d)

(* C9: a request ends in a SunTimes result, status 400 or status 500; an   *)
(* invalid date or an out-of-range coordinate ends in 400; 500 comes only  *)
(* after the date and the coordinates passed validation.                   *)
C9_HandlerOutcomes ==
    last.op = "calculate" =>
        LET inp == last.inp
            bad == InvalidDate(inp.date) \/ OutOfRange(inp.latitude, inp.longitude)
        IN  /\ last.resp.status \in {200, 400, 500}
            /\ last.resp.status = 200 => last.resp.body.kind = "ok"
            /\ bad => last.resp.status = 400
            /\ last.resp.status = 500 =>
                 ~bad /\ WithinOneYear(inp.date.ymd, today)

\* a failure after validation: the request is answered 500
C9_Witness ==
    /\ last.op = "calculate" /\ last.resp.status = 500
    /\ ~OutOfRange(last.inp.latitude, last.inp.longitude)
    /\ ~InvalidDate(last.inp.date)

(* C10: get_sun_times fails with 'Location must be set' exactly when no    *)
(* earlier set_location call on the instance has succeeded, and once one   *)
(* has, the location stays set.                                            *)
C10_LocationSetOnce ==
    program = "frontend" =>
        /\ everSet => instances[1] # NoLocation
        /\ last.op = "get_sun_times" =>
             ((last.out = Raised("ValueError",
                                 "Location must be set before calculating sun times"))
              <=> ~everSet)

\* a set_location call failed after an earlier one had succeeded
C10_Witness ==
    /\ last.op = "set_location" /\ last.out.kind = "ValueError"
    /\ everSet /\ instances[1] # NoLocation

(* C11: for every today and every well-formed string naming an existing    *)
(* date d, validate_date passes d when d is within a year of today (both   *)
(* ends included), answers 400 'too far in past' when d is earlier and     *)
(* 'too far in future' when it is later; 400 'Invalid date format' is      *)
(* answered only for a string that does not parse as an existing date.     *)
C11_DateWindow ==
    (last.op = "calculate" /\ ~InvalidDate(last.inp.date)) =>
        LET d      == last.inp.date.ymd
            resp   == last.resp
            before == DateLT(d, <<today[1] - 1, today[2], today[3]>>)
            after  == DateLT(<<today[1] + 1, today[2], today[3]>>, d)
        IN  /\ WithinOneYear(d, today) => ~IsDateRejection(resp)
            /\ before => (resp.status = 400 /\
                            resp.detail = "Date too far in past: maximum 1 year ago")
            /\ after  => (resp.status = 400 /\
                            resp.detail = "Date too far in future: maximum 1 year ahead")
            /\ ~(resp.status = 400 /\ resp.detail = InvalidDateFormat.detail)

(* C12: a set_location call that fails for its latitude or longitude       *)
(* leaves the stored location as it was, unset or the previous one, and    *)
(* the get_sun_times that follows computes from the stored location.       *)
C12_FailedSetLocationKeeps ==
    [][/\ (last'.op = "set_location" /\ last'.out.kind = "ValueError") =>
            instances' = instances
       /\ last'.op = "get_sun_times" =>
            /\ instances' = instances
            /\ last'.out = get_sun_times(instances[1], last'.date)]_vars

\* the longitude was refused after the latitude passed, a location being stored
C12_Witness ==
    /\ last.op = "set_location" /\ last.out.kind = "ValueError"
    /\ last.latitude = 90 /\ last.longitude = 181
    /\ instances[1] = LocationInfo(41, -74)

(* C13: a request answered 400 leaves the shared calculator as it was, not *)
(* even creating it; every other request leaves the one shared calculator  *)
(* holding its own coordinates; so the calculator's location is that of    *)
(* the last request that passed validation.                                *)
C13_RejectedLeavesCalculator ==
    [][last'.op = "calculate" =>
         IF last'.resp.status = 400
         THEN instances' = instances /\ calculator_attr' = calculator_attr
         ELSE /\ calculator_attr' = 1 /\ Len(instances') = 1
              /\ instances'[1] = LocationInfo(last'.inp.latitude,
                                              last'.inp.longitude)]_vars

\* a request was rejected while the calculator holds an earlier request's location
C13_Witness ==
    /\ last.op = "calculate" /\ last.resp.status = 400
    /\ ~OutOfRange(last.inp.latitude, last.inp.longitude)
    /\ calculator_attr = 1
    /\ instances[1] = LocationInfo(78, -74)

====
